---- MODULE Spec2Model ----
(***************************************************************************)
(* A model of the transaction batch orchestrator of pumpdotfun-sdk:        *)
(* PumpFunSDK.createAndBuy / buy / sell (src/src/pumpfun.ts), sendTx,      *)
(* buildVersionedTx and getTxDetails (src/src/util.ts) and sendBundle      *)
(* (src/src/jito.ts), together with the two external collaborators they   *)
(* talk to: the ledger RPC node and the relay.                             *)
(*                                                                         *)
(* One behaviour of the model is one call of one public operation.  Every  *)
(* await of the code is a step of the model; what the ledger, the relay    *)
(* and the metadata gateway answer is chosen nondeterministically.         *)
(* Indices are 1-based here (the primary transaction is transaction 1),    *)
(* the code's are 0-based.                                                 *)
(***************************************************************************)
EXTENDS Integers, Sequences, FiniteSets, TLC

\* ------------------------------------------------------------------ bounds
\* the largest bundledBuys list a request carries
MaxBuyers == 9
\* how many times the ledger's latest blockhash advances during one call
MaxHash == 1

\* the largest amount the pure helpers are applied to
MaxAmount == 40
\* Math.random() is one of 0/RandomSteps .. (RandomSteps - 1)/RandomSteps
RandomSteps == 16

\* ------------------------------------------------------- program constants
MAX_BUNDLED_BUYS_PER_TX == 4

\* jito.ts: the default tip, 0.0001 SOL
TIP_LAMPORTS == 100000

\* the default of every slippageBasisPoints parameter (500n)
DEFAULT_SLIPPAGE_BASIS_POINTS == 500

JITO_MAINNET_ENDPOINTS ==
  <<"https://amsterdam.mainnet.block-engine.jito.wtf",
    "https://mainnet.block-engine.jito.wtf",
    "https://ny.mainnet.block-engine.jito.wtf",
    "https://frankfurt.mainnet.block-engine.jito.wtf",
    "https://tokyo.mainnet.block-engine.jito.wtf",
    "https://slc.mainnet.block-engine.jito.wtf">>

TIP_ACCOUNTS ==
  <<"96gYZGLnJYVFmbjzopPSU6QiEV5fGqZNyN9nmNhvrZU5",
    "HFqU5x63VTqvQss8hp11i4wVV8bD44PvwucfZ2bU7gRe",
    "Cw8CFyM9FkoMi7K7Crf6HNQqf4uEMzpKw6QNghXLvLkY",
    "ADaUMid9yfUytqMBgopwjb2DTLSokTSzL1zt6iGPaS49",
    "DfXygSm4jCyNCybVYYK6DwvWqjKee8pbDmJGcLWNDXjh",
    "ADuUkR4vqLUMWXxW9gh6D6L8pMSawimctcNZ5pGwDcEt",
    "DttWaMuVvTiduZRnguLF7jNxTgiMBZ1hyAumKUiL2KRL",
    "3AVi9Tg9Uo68tJfuvoKvqKNWKkC5wPdSSdeBnizKZ6jT">>

VARIABLES
  req,              \* the caller's request (the operation and its parameters)
  hasAccount,       \* external state: the keys that own a holding account
  curve,            \* external state: the market's bonding-curve record
  calc,             \* the arguments and results of the pure helpers
  pc,               \* the position of the call
  allTransactions,  \* createAndBuy's allTransactions (for buy/sell: the one tx)
  allSigners,       \* createAndBuy's allSigners
  fetched,          \* history: the account reads asked of the connection
  i,                \* the loop index of the signing / submission loop
  serializedTxs,    \* relay path: the transactions serialized so far
  versionedTx,      \* sendTx: the signed transaction being submitted
  signature,        \* sendTx: the signature sendTransaction returned
  confirmRef,       \* getTxDetails: the blockhash the confirmation waits on
  chainHash,        \* the ledger's latest blockhash
  ledgerLog,        \* every transaction handed to connection.sendTransaction
  relayLog,         \* every bundle handed to the relay (sendBundle's POST)
  accepted,         \* the transactions the ledger node accepted for broadcast
  landed,           \* the transactions in the ledger at the commitment level
  final,            \* the transactions in the ledger at the finality level
  relayResponse,    \* history: the relay's answer to the bundle
  txResults,        \* history: the result of every sendTx call, in call order
  result0,          \* createAndBuy's result0
  ret,              \* the outcome returned to the caller
  thrown            \* the exception that escaped the operation

vars == <<req, hasAccount, curve, calc, pc, allTransactions, allSigners,
          fetched, i,
          serializedTxs, versionedTx, signature, confirmRef, chainHash, ledgerLog, relayLog, accepted,
          landed, final, relayResponse, txResults, result0, ret, thrown>>

\* ------------------------------------------------------------------ values
\* Every JavaScript value the outcome may carry is a record of one shape.
Val(type, tx, message) == [type |-> type, tx |-> tx, message |-> message]

Undef == Val("undefined", 0, "")

\* a participant's keypair
Key(role, k) == [role |-> role, k |-> k]

Creator == Key("creator", 0)

Mint == Key("mint", 0)

Trader == Key("trader", 0)

Buyer(k) == Key("buyer", k)

\* an instruction of a transaction, paid or signed for by user
\* the token amount a quote function returned for solIn; the quote
\* functions themselves belong to the account classes
Quoted(fn, solIn) == [fn |-> fn, solIn |-> solIn]

NoQuote == Quoted("none", 0)

\* every instruction is a record of one shape: the tip's destination and
\* lamports, the buy's token amount and maximum spend are filled in by the
\* builders
Ix(kind, user) ==
  [kind |-> kind, user |-> user, to |-> "none", lamports |-> 0,
   amount |-> NoQuote, maxSolCost |-> 0]

\* a TransactionResult
Result(success, sig, results, error) ==
  [success |-> success, signature |-> sig, results |-> results, error |-> error]

\* JavaScript truthiness of a relay response field
Truthy(v) == v \notin {"absent", "empty"}

\* jitoConfig?.jitoEnabled as a condition
JitoEnabled(r) == r.jito = "on"

\* ------------------------------------------------------------ pure helpers
\* bigint division: the quotient truncated toward zero
TruncDiv(x, y) == IF x >= 0 THEN x \div y ELSE -((-x) \div y)

\* the buy bound as it would be with the percentage taken off
SlippageBuySubtracts(amount, basisPoints) ==
  amount - TruncDiv(amount * basisPoints, 10000)

\* the buy bound as it would be with basis points read as tenths of a percent
SlippageBuyPerMille(amount, basisPoints) ==
  amount + TruncDiv(amount * basisPoints, 1000)

\* calculateWithSlippageBuy: amount + (amount * basisPoints) / 10000n
calculateWithSlippageBuy(amount, basisPoints) ==
  amount + TruncDiv(amount * basisPoints, 10000)

\* the sell bound as it would be with the percentage added
SlippageSellAdds(amount, basisPoints) ==
  amount + TruncDiv(amount * basisPoints, 10000)

\* calculateWithSlippageSell: amount - (amount * basisPoints) / 10000n
calculateWithSlippageSell(amount, basisPoints) ==
  amount - TruncDiv(amount * basisPoints, 10000)

\* the default as it would be at one percent
SlippageOrDefaultOnePercent(s) == IF s.present THEN s.value ELSE 100

\* a slippageBasisPoints argument: the caller's value, or the parameter's
\* default when the caller gave none
SlippageOrDefault(s) ==
  IF s.present THEN s.value ELSE DEFAULT_SLIPPAGE_BASIS_POINTS

\* the index as it would be with the product rounded up
RandomIndexCeil(n, length) == (n * length + RandomSteps - 1) \div RandomSteps

\* Math.floor(Math.random() * length) for Math.random() = n / RandomSteps
RandomIndex(n, length) == (n * length) \div RandomSteps

\* list[index] for a 0-based index; out of range is undefined
ElementAt(list, index) ==
  IF index + 1 \in DOMAIN list THEN list[index + 1] ELSE "undefined"

\* getRandomJitoMainnetEndpoint
getRandomJitoMainnetEndpoint(n) ==
  ElementAt(JITO_MAINNET_ENDPOINTS, RandomIndex(n, Len(JITO_MAINNET_ENDPOINTS)))

\* getRandomTipAccount
getRandomTipAccount(n) ==
  ElementAt(TIP_ACCOUNTS, RandomIndex(n, Len(TIP_ACCOUNTS)))

\* ---------------------------------------------------------------- requests
\* the signer of the k-th bundled buy of request r: the buyers are distinct,
\* or the creator is listed as the first of them, or the last is the first
\* buyer listed again
BundledSigner(r, k) ==
  IF r.dup = "creator" /\ k = 1 THEN Creator
  ELSE IF r.dup = "signer" /\ k = r.nBuys /\ k > 1 THEN Buyer(1)
  ELSE Buyer(k)

\* the bundled buys of a request, each with its own amount
BundledBuys(r) ==
  [k \in 1..r.nBuys |->
     [signer |-> BundledSigner(r, k), amountInSol |-> MaxAmount - k]]

\* the slippageBasisPoints a request carries: none, or a quarter
RequestSlippages ==
  {[present |-> FALSE, value |-> 0], [present |-> TRUE, value |-> 2500]}

\* the numbers of bundled buys a createAndBuy call is given: none, one, a
\* full batch, one more, two full batches, and the most
BuyerCounts ==
  {0, 1, MAX_BUNDLED_BUYS_PER_TX, MAX_BUNDLED_BUYS_PER_TX + 1,
   2 * MAX_BUNDLED_BUYS_PER_TX, MaxBuyers}

\* no jitoConfig.tipLampports
NoTip == [present |-> FALSE, value |-> 0]

\* the jitoConfig.tipLampports a request carries: none, zero, or an amount
\* of its own
RequestTips == {NoTip, [present |-> TRUE, value |-> 0],
                [present |-> TRUE, value |-> 5000]}

\* the jitoConfig of a request: absent, relay routing off, or relay routing
\* on with a tip setting; the tip is read only when routing is on
JitoConfigs ==
  [jito : {"none", "off"}, tip : {NoTip}] \cup [jito : {"on"}, tip : RequestTips]

\* the jitoConfigs that state no tip, and those that state one
DefaultTipConfigs == {j \in JitoConfigs : j.tip = NoTip}

StatedTipConfigs == JitoConfigs \ DefaultTipConfigs

RequestsWith(ops, configs, counts, dups, amounts) ==
  {[op |-> o, jito |-> j.jito, tip |-> j.tip, nBuys |-> n, dup |-> d,
    buyAmountSol |-> a, priorityFees |-> p, slippage |-> sl] :
     o \in ops, j \in configs, n \in counts, d \in dups, a \in amounts,
     p \in BOOLEAN, sl \in RequestSlippages}

\* createAndBuy with distinct bundled buyers and the default tip, with one
\* bundled buyer and a stated tip, and with two bundled buys of which one
\* repeats a participant; buy and sell
Requests ==
  RequestsWith({"createAndBuy"}, DefaultTipConfigs, BuyerCounts, {"none"},
               {0, MaxAmount})
    \cup RequestsWith({"createAndBuy"}, StatedTipConfigs, {1}, {"none"},
                      {MaxAmount})
    \cup RequestsWith({"createAndBuy"}, DefaultTipConfigs, {2},
                      {"creator", "signer"}, {MaxAmount})
    \cup RequestsWith({"buy", "sell"}, JitoConfigs, {0}, {"none"},
                      {MaxAmount})

\* the keys that may already own a holding account for the asset
Holders(r) ==
  IF r.op = "createAndBuy" THEN {Creator, Buyer(1)} ELSE {Trader}

\* the holding accounts that exist when a call starts: none, or one for
\* every such key
HoldingAccounts(r) == {{}, Holders(r)}

\* the values of Math.random() the tip selections of a call draw: the
\* smallest and the largest
TipDraws == {0, RandomSteps - 1}


\* the market record a call may find: createAndBuy mints a new asset and
\* never reads it
CurveStates(r) ==
  IF r.op = "createAndBuy" THEN {"absent"} ELSE {"absent", "open", "complete"}

\* the pure helpers are idle
NoCalc == [kind |-> "idle"]

\* the value returned before the operation has returned anything
NoResult == Result(FALSE, Val("pending", 0, ""), Undef, Undef)

Min(a, b) == IF a < b THEN a ELSE b

\* Array.prototype.slice(from, to) on 0-based positions
Slice(s, from, to) == SubSeq(s, from + 1, Min(to, Len(s)))

\* ---------------------------------------------------------------- planning
\* getCreateInstructions: the market-creation instruction
GetCreateInstructions(creator) == <<Ix("create", creator)>>

\* the tip transfer added when relay routing is enabled
\* SystemProgram.transfer from a payer to a tip account
TransferIx(from, to, lamports) ==
  [Ix("tip", from) EXCEPT !.to = to, !.lamports = lamports]

\* jitoConfig.tipLampports || TIP_LAMPORTS: undefined and 0 are both falsy
TipLamportsOrDefault(t) ==
  IF t.present /\ t.value # 0 THEN t.value ELSE TIP_LAMPORTS

\* sendTx's parameter tipLampports = TIP_LAMPORTS: only undefined takes the
\* default
SendTxTipLamports(t) == IF t.present THEN t.value ELSE TIP_LAMPORTS

\* the tip as it would be if the creator funded every one
TipInstructionByCreator(r, from, n) ==
  IF JitoEnabled(r)
    THEN <<TransferIx(Creator, getRandomTipAccount(n),
                      TipLamportsOrDefault(r.tip))>>
  ELSE <<>>

TipInstruction(r, from, n) ==
  IF JitoEnabled(r)
    THEN <<TransferIx(from, getRandomTipAccount(n),
                      TipLamportsOrDefault(r.tip))>>
    ELSE <<>>

\* globalAccount.getInitialBuyPrice(solIn)
getInitialBuyPrice(solIn) == Quoted("getInitialBuyPrice", solIn)

\* bondingCurveAccount.getBuyPrice(solIn)
getBuyPrice(solIn) == Quoted("getBuyPrice", solIn)

\* getBuyInstructions: create the holding account when the lookup fails,
\* then the buy
GetBuyInstructions(buyer, holders, amount, solAmount) ==
  (IF buyer \in holders THEN <<>> ELSE <<Ix("createATA", buyer)>>)
    \o <<[Ix("buy", buyer) EXCEPT !.amount = amount, !.maxSolCost = solAmount]>>

\* getSellInstructions: the sell alone
GetSellInstructions(seller) == <<Ix("sell", seller)>>

\* the batching loop: for (i = 0; i < length; i += MAX) push slice(i, i + MAX)
RECURSIVE BatchesFrom(_, _)
BatchesFrom(buys, start) ==
  IF start >= Len(buys) THEN <<>>
  ELSE <<Slice(buys, start, start + MAX_BUNDLED_BUYS_PER_TX)>>
         \o BatchesFrom(buys, start + MAX_BUNDLED_BUYS_PER_TX)

\* the batching as it would be with five buys to a transaction
RECURSIVE BatchesWideFrom(_, _)
BatchesWideFrom(buys, start) ==
  IF start >= Len(buys) THEN <<>>
  ELSE <<Slice(buys, start, start + MAX_BUNDLED_BUYS_PER_TX + 1)>>
         \o BatchesWideFrom(buys, start + MAX_BUNDLED_BUYS_PER_TX + 1)

BatchesWide(buys) == BatchesWideFrom(buys, 0)

\* the batching as it would be with the loop stepping one past each slice
RECURSIVE BatchesSkippingFrom(_, _)
BatchesSkippingFrom(buys, start) ==
  IF start >= Len(buys) THEN <<>>
  ELSE <<Slice(buys, start, start + MAX_BUNDLED_BUYS_PER_TX)>>
         \o BatchesSkippingFrom(buys, start + MAX_BUNDLED_BUYS_PER_TX + 1)

BatchesSkipping(buys) == BatchesSkippingFrom(buys, 0)

Batches(buys) == BatchesFrom(buys, 0)

\* the instructions of one batch transaction
RECURSIVE BatchBuys(_, _, _)
BatchBuys(batch, holders, basisPoints) ==
  IF batch = <<>> THEN <<>>
  ELSE GetBuyInstructions(
         Head(batch).signer, holders,
         getInitialBuyPrice(Head(batch).amountInSol),
         calculateWithSlippageBuy(Head(batch).amountInSol, basisPoints))
         \o BatchBuys(Tail(batch), holders, basisPoints)

BatchTx(r, batch, holders, n) ==
  TipInstruction(r, batch[1].signer, n)
    \o BatchBuys(batch, holders, SlippageOrDefault(r.slippage))

\* the signers as they would be with the batch's first participant alone
BatchSignersFirstOnly(batch) == <<batch[1].signer>>

BatchSigners(batch) == [k \in 1..Len(batch) |-> batch[k].signer]

\* the primary as it would be if the creator's buy were always added
FirstTxAlwaysBuys(r, holders, n) ==
  TipInstruction(r, Creator, n) \o GetCreateInstructions(Creator)
    \o GetBuyInstructions(
         Creator, holders, getInitialBuyPrice(r.buyAmountSol),
         calculateWithSlippageBuy(r.buyAmountSol,
                                  SlippageOrDefault(r.slippage)))

\* the primary transaction: tip, create, and the creator's buy when
\* buyAmountSol > 0
FirstTx(r, holders, n) ==
  TipInstruction(r, Creator, n) \o GetCreateInstructions(Creator)
    \o (IF r.buyAmountSol > 0
          THEN GetBuyInstructions(
                 Creator, holders, getInitialBuyPrice(r.buyAmountSol),
                 calculateWithSlippageBuy(r.buyAmountSol,
                                          SlippageOrDefault(r.slippage)))
          ELSE <<>>)

\* the lookup as it would be if an absent record were handed on as it is
getBondingCurveAccountAsIs(c) == c

\* getBondingCurveAccount: null when the ledger holds no record for the mint
getBondingCurveAccount(c) == IF c = "absent" THEN "null" ELSE c

\* BondingCurveAccount.getBuyPrice / getSellPrice refuse a record whose
\* completion flag is set
QuoteFails(c) == c = "complete"

\* the entry as it would be if every plan went through sendTx
SubmitEntryAlwaysSendTx(r) == "sendTx"

\* where createAndBuy goes once the plan is complete
SubmitEntry(r) == IF JitoEnabled(r) THEN "bundle_sign" ELSE "sendTx"

\* -------------------------------------------------------------- submission
\* the default as it would be with relay routing on unless switched off
\* (the sendTx of src/unnamed/part_000, line 49, has this default)
SendTxJitoDefaultOn == TRUE

\* the default of sendTx's jito parameter
SendTxJitoDefault == FALSE

\* the jito argument sendTx runs with: createAndBuy passes none, buy and
\* sell pass jitoConfig?.jitoEnabled (undefined takes the default)
SendTxJito(r) ==
  IF r.op = "createAndBuy" \/ r.jito = "none" THEN SendTxJitoDefault
  ELSE r.jito = "on"

\* sendTx's newTx: priority fees, tip, then the caller's instructions
NewTx(r, tx, payer, n) ==
  (IF r.priorityFees
     THEN <<Ix("setComputeUnitLimit", payer), Ix("setComputeUnitPrice", payer)>>
     ELSE <<>>)
  \o (IF SendTxJito(r)
        THEN <<TransferIx(payer, getRandomTipAccount(n),
                          SendTxTipLamports(r.tip))>>
        ELSE <<>>)
  \o tx

\* the transaction as it would be if built against the blockhash the call
\* began with
BuildVersionedTxStale(idx, payer, tx, signers, blockhash) ==
  [idx |-> idx, payerKey |-> payer, recentBlockhash |-> 0,
   instructions |-> tx, signers |-> signers]

\* the accounts an instruction requires as signers: the mint and the user of
\* create, the funder of a tip or of a holding account, the user of a buy or
\* sell; the compute-budget instructions require none
RequiredSigners(ix) ==
  IF ix.kind = "create" THEN {ix.user, Mint}
  ELSE IF ix.kind \in {"setComputeUnitLimit", "setComputeUnitPrice"} THEN {}
  ELSE {ix.user}

\* buildVersionedTx followed by sign: the signed transaction
BuildVersionedTx(idx, payer, tx, signers, blockhash) ==
  [idx |-> idx, payerKey |-> payer, recentBlockhash |-> blockhash,
   instructions |-> tx, signers |-> signers]

\* the relay's answers: an error field (absent, the empty string, or one of
\* two messages) and a result field (absent or a bundle id)
RelayResponses ==
  [error : {"absent", "empty", "bundle dropped", "rate limited"},
   result : {"absent", "id"}]

\* no answer yet
NoResponse == [error |-> "pending", result |-> "pending"]

\* the request as it would be if only the first transaction were posted
BundleRequestFirstOnly(transactions) == SubSeq(transactions, 1, 1)

\* the POST body's params[0]: the transactions as sendBundle was given them
BundleRequest(transactions) == transactions

\* the transactions of a bundle the relay took (it answered without an error)
BundleIds(bundle, response) ==
  IF Truthy(response.error) THEN {}
  ELSE {bundle[k].idx : k \in 1..Len(bundle)}

ResponseResult(response) ==
  IF response.result = "id" THEN Val("bundleId", 0, "") ELSE Undef

\* the handling as it would be if the error field were not inspected
BundleOutcomeIgnoresError(response) ==
  Result(TRUE, ResponseResult(response), Undef, Undef)

\* createAndBuy's handling of the relay's response
BundleOutcome(response) ==
  IF Truthy(response.error)
    THEN Result(FALSE, Undef, Undef, Val("JitoBundleError", 0, response.error))
    ELSE Result(TRUE, ResponseResult(response), Undef, Undef)

\* sendTx's catch block, lines 165-190: the kind of failure, from the class
\* of the thrown value, whether its message includes
\* "custom program error:", whether a log line includes
\* "exceeded CUs meter", and what AnchorError.parse does
ErrorKind(class, custom, logs, parse) ==
  IF class = "SendTransactionError"
    THEN IF logs = "exceeded CUs meter" THEN "Compute budget exceeded"
         ELSE IF custom
           THEN IF parse = "throws" THEN "Program Error" ELSE "Anchor Error"
         ELSE "Transaction Error"
  ELSE IF class = "ProgramError" THEN "Program Error"
  ELSE "Unknown Error"

\* the text that follows the kind in errorMessage
ErrorMessage(kind, class, message, msg, parse) ==
  IF kind = "Compute budget exceeded"
    THEN "Try increasing compute unit limit."
  ELSE IF kind = "Anchor Error"
    THEN IF parse = "found" THEN "anchorError.error.errorMessage"
         ELSE "Unknown anchor error"
  ELSE IF class = "ProgramError" /\ msg # "" THEN msg
  ELSE message

\* the TransactionError the catch block builds: its message (kind and
\* text) and its logs
Classified(class, message, msg, custom, logs, parse) ==
  LET kind == ErrorKind(class, custom, logs, parse) IN
  [kind |-> kind,
   message |-> ErrorMessage(kind, class, message, msg, parse),
   logs |-> IF class \in {"SendTransactionError", "ProgramError"} THEN logs
            ELSE "undefined"]

\* TransactionError.toString(): the name, then the message
TransactionErrorName(kind) ==
  IF kind = "Compute budget exceeded"
    THEN "TransactionError: Transaction failed: Compute budget exceeded"
  ELSE IF kind = "Anchor Error" THEN "TransactionError: Anchor Error"
  ELSE IF kind = "Program Error" THEN "TransactionError: Program Error"
  ELSE IF kind = "Transaction Error" THEN "TransactionError: Transaction Error"
  ELSE "TransactionError: Unknown Error"

\* sendTx's catch block: the error wrapped into a failed result.  The
\* errors of a call carry no logs and no message of their own beside
\* e.message.
CatchResult(e) ==
  LET c == Classified(e.type, e.message, "",
                      e.message = "custom program error:", "undefined", "null")
  IN Result(FALSE, Undef, Undef,
            Val(TransactionErrorName(c.kind), 0, c.message))

\* no confirmation has been started
NoRef == -1

\* getTxDetails, lines 232-237: the block reference handed to
\* confirmTransaction is a fresh getLatestBlockhash, not the signed one
ConfirmStrategyRef(tx, latest) == latest

\* what confirmTransaction throws when that reference's last valid block
\* height passes first
ExpiredError == Val("Error", 0, "block height exceeded")

\* connection.confirmTransaction resolves once transaction t has reached the
\* commitment level
ConfirmResolves(t, reached) == t \in reached

\* the result as it would be if a null from getTxDetails were not checked
NullDetailsAsSuccess == Result(TRUE, Undef, Undef, Undef)

\* sendTx's result when getTxDetails yields null
NullDetailsResult ==
  Result(FALSE, Undef, Undef, Val("string", 0, "Transaction failed"))

\* sendTx's result on the direct path once the details were fetched
DirectSuccess(sig, details) == Result(TRUE, sig, details, Undef)

\* the handling as it would be if the error field were not inspected
SendTxRelayIgnoresError(response) ==
  Result(TRUE, ResponseResult(response), Undef, Undef)

\* sendTx's handling of the relay's response (buy and sell)
SendTxRelayOutcome(response) ==
  IF Truthy(response.error)
    THEN CatchResult(Val("Error", 0, response.error))
    ELSE Result(TRUE, ResponseResult(response), Undef, Undef)

\* the loop as it would be if a failed result did not end it
SeqStepNoHalt(result, idx, r0, n) ==
  LET r == IF idx = 1 THEN result ELSE r0 IN
  IF idx < n
    THEN [pc |-> "sendTx", i |-> idx + 1, result0 |-> r, ret |-> NoResult]
    ELSE [pc |-> "done", i |-> idx + 1, result0 |-> r, ret |-> r]

\* the loop as it would be if a failure returned the first result
SeqStepReturnsFirst(result, idx, r0, n) ==
  LET r == IF idx = 1 THEN result ELSE r0 IN
  IF ~result.success
    THEN [pc |-> "done", i |-> idx, result0 |-> r, ret |-> r]
    ELSE IF idx < n
      THEN [pc |-> "sendTx", i |-> idx + 1, result0 |-> r, ret |-> NoResult]
      ELSE [pc |-> "done", i |-> idx + 1, result0 |-> r, ret |-> r]

\* the loop as it would be if a failure were returned without its error
SeqStepDropsError(result, idx, r0, n) ==
  LET r == IF idx = 1 THEN result ELSE r0 IN
  IF ~result.success
    THEN [pc |-> "done", i |-> idx, result0 |-> r0,
          ret |-> Result(FALSE, Undef, Undef, Undef)]
    ELSE IF idx < n
      THEN [pc |-> "sendTx", i |-> idx + 1, result0 |-> r, ret |-> NoResult]
      ELSE [pc |-> "done", i |-> idx + 1, result0 |-> r, ret |-> r]

\* the loop as it would be if the latest result were the one remembered
SeqStepReturnsLast(result, idx, r0, n) ==
  IF ~result.success
    THEN [pc |-> "done", i |-> idx, result0 |-> r0, ret |-> result]
    ELSE IF idx < n
      THEN [pc |-> "sendTx", i |-> idx + 1, result0 |-> result, ret |-> NoResult]
      ELSE [pc |-> "done", i |-> idx + 1, result0 |-> result, ret |-> result]

\* the loop as it would be if only the primary's result were inspected
SeqStepChecksFirstOnly(result, idx, r0, n) ==
  LET r == IF idx = 1 THEN result ELSE r0 IN
  IF ~r.success
    THEN [pc |-> "done", i |-> idx, result0 |-> r, ret |-> r]
    ELSE IF idx < n
      THEN [pc |-> "sendTx", i |-> idx + 1, result0 |-> r, ret |-> NoResult]
      ELSE [pc |-> "done", i |-> idx + 1, result0 |-> r, ret |-> r]

\* createAndBuy's sequential loop after sendTx returned result for
\* transaction idx of n: return the failure, remember the first result,
\* go on, or return result0
SeqStep(result, idx, r0, n) ==
  IF ~result.success
    THEN [pc |-> "done", i |-> idx, result0 |-> r0, ret |-> result]
    ELSE LET r == IF idx = 1 THEN result ELSE r0 IN
         IF idx < n
           THEN [pc |-> "sendTx", i |-> idx + 1, result0 |-> r, ret |-> NoResult]
           ELSE [pc |-> "done", i |-> idx + 1, result0 |-> r, ret |-> r]


\* ------------------------------------------------------------- the machine
Init ==
  /\ req \in Requests
  /\ hasAccount \in HoldingAccounts(req)
  /\ curve \in CurveStates(req)
  /\ calc = NoCalc
  /\ confirmRef = NoRef
  /\ pc = "start"
  /\ allTransactions = <<>>
  /\ allSigners = <<>>
  /\ fetched = <<>>
  /\ i = 1
  /\ serializedTxs = <<>>
  /\ versionedTx = Undef
  /\ signature = Undef
  /\ chainHash = 0
  /\ ledgerLog = <<>>
  /\ relayLog = <<>>
  /\ accepted = {}
  /\ landed = {}
  /\ final = {}
  /\ relayResponse = NoResponse
  /\ txResults = <<>>
  /\ result0 = Undef
  /\ ret = NoResult
  /\ thrown = Undef

planVars == <<allTransactions, allSigners, fetched>>

sendVars == <<serializedTxs, versionedTx, signature, confirmRef>>

ledgerVars == <<ledgerLog, relayLog, accepted, landed, final, relayResponse>>

outVars == <<txResults, result0, ret>>

envVars == <<req, hasAccount, curve, calc, chainHash>>

\* an exception leaves the operation: the promise rejects
Throw(message) ==
  /\ pc' = "thrown"
  /\ thrown' = Val("Error", 0, message)

\* createAndBuy, line 121: the metadata upload, which rethrows its failures
CreateTokenMetadata ==
  /\ req.op = "createAndBuy"
  /\ pc = "start"
  /\ \/ pc' = "plan_primary" /\ UNCHANGED thrown
     \/ Throw("createTokenMetadata")
  /\ UNCHANGED <<envVars, planVars, i, sendVars, ledgerVars, outVars>>

\* createAndBuy, lines 124-172: the primary transaction.  getGlobalAccount
\* is fetched only when buyAmountSol > 0 and throws when the fetch fails.
PlanPrimary ==
  /\ pc = "plan_primary"
  /\ \/ /\ \E n \in TipDraws, found \in SUBSET hasAccount :
             allTransactions' =
               Append(allTransactions, FirstTx(req, found, n))
        /\ allSigners' = Append(allSigners, <<Creator, Mint>>)
        /\ fetched' = IF req.buyAmountSol > 0 THEN <<"global", "holding">>
                      ELSE <<>>
        /\ pc' = IF req.nBuys > 0 THEN "plan_batch" ELSE SubmitEntry(req)
        /\ UNCHANGED thrown
     \/ /\ req.buyAmountSol > 0
        /\ fetched' = <<"global">>
        /\ Throw("getGlobalAccount")
        /\ UNCHANGED <<allTransactions, allSigners>>
  /\ UNCHANGED <<envVars, i, sendVars, ledgerVars, outVars>>

\* createAndBuy, lines 181-217: one iteration of the loop over the batches
PlanBatch ==
  /\ pc = "plan_batch"
  /\ LET batches == Batches(BundledBuys(req))
         b == Len(allTransactions)
     IN \/ /\ \E n \in TipDraws, found \in SUBSET hasAccount :
                allTransactions' =
                  Append(allTransactions, BatchTx(req, batches[b], found, n))
           /\ allSigners' = Append(allSigners, BatchSigners(batches[b]))
           /\ fetched' = fetched \o <<"global">>
                           \o [k \in 1..Len(batches[b]) |-> "holding"]
           /\ pc' = IF b < Len(batches) THEN "plan_batch" ELSE SubmitEntry(req)
           /\ UNCHANGED thrown
        \/ /\ fetched' = Append(fetched, "global")
           /\ Throw("getGlobalAccount")
           /\ UNCHANGED <<allTransactions, allSigners>>
  /\ UNCHANGED <<envVars, i, sendVars, ledgerVars, outVars>>

\* buy as it would be if the instructions were built without taking the quote
BuildBuyWithoutQuote ==
  /\ req.op = "buy"
  /\ pc = "start"
  /\ \/ /\ getBondingCurveAccount(curve) # "null"
        /\ \E found \in SUBSET hasAccount :
             allTransactions' =
               <<GetBuyInstructions(
                   Trader, found, getBuyPrice(req.buyAmountSol),
                   calculateWithSlippageBuy(req.buyAmountSol,
                                            SlippageOrDefault(req.slippage)))>>
        /\ allSigners' = <<<<Trader>>>>
        /\ fetched' = <<"bondingCurve", "global", "holding">>
        /\ pc' = "sendTx"
        /\ UNCHANGED thrown
     \/ /\ \/ /\ fetched' = <<"bondingCurve">>
              /\ Throw("getAccountInfo")
           \/ /\ getBondingCurveAccount(curve) = "null"
              /\ fetched' = <<"bondingCurve">>
              /\ Throw("Bonding curve account not found")
           \/ /\ getBondingCurveAccount(curve) # "null"
              /\ fetched' = <<"bondingCurve", "global">>
              /\ Throw("getGlobalAccount")
        /\ UNCHANGED <<allTransactions, allSigners>>
  /\ UNCHANGED <<envVars, i, sendVars, ledgerVars, outVars>>

\* buy, lines 299-305 with getBuyInstructionsBySolAmount: the market record
\* is fetched (an absent record throws), the quote is taken from it, then the
\* global configuration is fetched, then the holding account is looked up
BuildBuy ==
  /\ req.op = "buy"
  /\ pc = "start"
  /\ \/ /\ getBondingCurveAccount(curve) # "null"
        /\ ~QuoteFails(curve)
        /\ \E found \in SUBSET hasAccount :
             allTransactions' =
               <<GetBuyInstructions(
                   Trader, found, getBuyPrice(req.buyAmountSol),
                   calculateWithSlippageBuy(req.buyAmountSol,
                                            SlippageOrDefault(req.slippage)))>>
        /\ allSigners' = <<<<Trader>>>>
        /\ fetched' = <<"bondingCurve", "global", "holding">>
        /\ pc' = "sendTx"
        /\ UNCHANGED thrown
     \/ /\ \/ /\ fetched' = <<"bondingCurve">>
              /\ Throw("getAccountInfo")
           \/ /\ getBondingCurveAccount(curve) = "null"
              /\ fetched' = <<"bondingCurve">>
              /\ Throw("Bonding curve account not found")
           \/ /\ getBondingCurveAccount(curve) # "null"
              /\ QuoteFails(curve)
              /\ fetched' = <<"bondingCurve">>
              /\ Throw("Curve is complete")
           \/ /\ getBondingCurveAccount(curve) # "null"
              /\ ~QuoteFails(curve)
              /\ fetched' = <<"bondingCurve", "global">>
              /\ Throw("getGlobalAccount")
        /\ UNCHANGED <<allTransactions, allSigners>>
  /\ UNCHANGED <<envVars, i, sendVars, ledgerVars, outVars>>

\* sell, lines 332-338 with getSellInstructionsByTokenAmount: the market
\* record, then the global configuration, then the quote
BuildSell ==
  /\ req.op = "sell"
  /\ pc = "start"
  /\ \/ /\ getBondingCurveAccount(curve) # "null"
        /\ ~QuoteFails(curve)
        /\ allTransactions' = <<GetSellInstructions(Trader)>>
        /\ allSigners' = <<<<Trader>>>>
        /\ fetched' = <<"bondingCurve", "global">>
        /\ pc' = "sendTx"
        /\ UNCHANGED thrown
     \/ /\ \/ /\ fetched' = <<"bondingCurve">>
              /\ Throw("getAccountInfo")
           \/ /\ getBondingCurveAccount(curve) = "null"
              /\ fetched' = <<"bondingCurve">>
              /\ Throw("Bonding curve account not found")
           \/ /\ getBondingCurveAccount(curve) # "null"
              /\ fetched' = <<"bondingCurve", "global">>
              /\ Throw("getGlobalAccount")
           \/ /\ getBondingCurveAccount(curve) # "null"
              /\ QuoteFails(curve)
              /\ fetched' = <<"bondingCurve", "global">>
              /\ Throw("Curve is complete")
        /\ UNCHANGED <<allTransactions, allSigners>>
  /\ UNCHANGED <<envVars, i, sendVars, ledgerVars, outVars>>

\* createAndBuy, lines 224-240: one iteration of the relay path's signing
\* loop; getLatestBlockhash may fail, and nothing catches it
SignForBundle ==
  /\ pc = "bundle_sign"
  /\ \/ /\ serializedTxs' =
             Append(serializedTxs,
                    BuildVersionedTx(i, allSigners[i][1], allTransactions[i],
                                     allSigners[i], chainHash))
        /\ i' = i + 1
        /\ pc' = IF i < Len(allTransactions) THEN "bundle_sign" ELSE "bundle_send"
        /\ UNCHANGED thrown
     \/ /\ Throw("getLatestBlockhash")
        /\ UNCHANGED <<serializedTxs, i>>
  /\ UNCHANGED <<envVars, planVars, versionedTx, signature, confirmRef,
                 ledgerVars, outVars>>

\* createAndBuy, lines 242-257 with sendBundle: one POST to the relay.  The
\* request may not reach the relay, or its answer may not be JSON: both throw.
SendBundle ==
  /\ pc = "bundle_send"
  /\ \/ \E response \in RelayResponses :
          /\ relayLog' = Append(relayLog, BundleRequest(serializedTxs))
          /\ relayResponse' = response
          /\ accepted' = accepted \cup BundleIds(serializedTxs, response)
          /\ ret' = BundleOutcome(response)
          /\ pc' = "done"
          /\ UNCHANGED thrown
     \/ /\ Throw("fetch failed")
        /\ UNCHANGED <<relayLog, relayResponse, accepted, ret>>
     \/ /\ relayLog' = Append(relayLog, BundleRequest(serializedTxs))
        /\ Throw("response.json")
        /\ UNCHANGED <<relayResponse, accepted, ret>>
  /\ UNCHANGED <<envVars, planVars, i, sendVars, ledgerLog, landed, final,
                 txResults, result0>>

\* sendTx returns result to its caller: createAndBuy's loop (lines 277-285)
\* or buy / sell, which return it as it is
SendTxReturns(result) ==
  /\ txResults' = Append(txResults, result)
  /\ UNCHANGED thrown
  /\ IF req.op = "createAndBuy"
       THEN LET s == SeqStep(result, i, result0, Len(allTransactions)) IN
            /\ pc' = s.pc
            /\ i' = s.i
            /\ result0' = s.result0
            /\ ret' = s.ret
       ELSE /\ pc' = "done"
            /\ ret' = result
            /\ UNCHANGED <<i, result0>>

\* sendTx, lines 84-117: newTx is assembled, built against the latest
\* blockhash and signed, all before the try block
SendTxBuild ==
  /\ pc = "sendTx"
  /\ \/ /\ \E n \in TipDraws :
             versionedTx' =
               BuildVersionedTx(
                 i, allSigners[i][1],
                 NewTx(req, allTransactions[i], allSigners[i][1], n),
                 allSigners[i], chainHash)
        /\ pc' = IF SendTxJito(req) THEN "sendTx_relay" ELSE "sendTransaction"
        /\ UNCHANGED thrown
     \/ /\ Throw("getLatestBlockhash")
        /\ UNCHANGED versionedTx
  /\ confirmRef' = NoRef
  /\ UNCHANGED <<envVars, planVars, i, serializedTxs, signature, ledgerVars,
                 outVars>>

\* sendTx, lines 120-136: the relay branch
SendTxRelay ==
  /\ pc = "sendTx_relay"
  /\ \/ \E response \in RelayResponses :
          /\ relayLog' = Append(relayLog, BundleRequest(<<versionedTx>>))
          /\ relayResponse' = response
          /\ accepted' = accepted \cup BundleIds(<<versionedTx>>, response)
          /\ SendTxReturns(SendTxRelayOutcome(response))
     \/ /\ UNCHANGED <<relayLog, relayResponse, accepted>>
        /\ SendTxReturns(CatchResult(Val("Error", 0, "fetch failed")))
     \/ /\ relayLog' = Append(relayLog, BundleRequest(<<versionedTx>>))
        /\ UNCHANGED <<relayResponse, accepted>>
        /\ SendTxReturns(CatchResult(Val("Error", 0, "response.json")))
  /\ UNCHANGED <<envVars, planVars, sendVars, ledgerLog, landed, final>>

\* sendTx, lines 138-141: connection.sendTransaction with preflight; a
\* rejection is a SendTransactionError, caught at line 161.  The catch block
\* awaits e.getLogs(connection) (line 166), a fetch that may itself fail, and
\* then nothing catches it.
SendTransaction ==
  /\ pc = "sendTransaction"
  /\ ledgerLog' = Append(ledgerLog, versionedTx)
  /\ \/ /\ accepted' = accepted \cup {i}
        /\ signature' = Val("signature", i, "")
        /\ pc' = "confirmTransaction"
        /\ UNCHANGED <<i, outVars, thrown>>
     \/ /\ \E m \in {"custom program error:", "Blockhash not found"} :
             SendTxReturns(CatchResult(Val("SendTransactionError", 0, m)))
        /\ UNCHANGED <<accepted, signature>>
     \/ /\ Throw("getLogs")
        /\ UNCHANGED <<accepted, signature, i, outVars>>
  /\ UNCHANGED <<envVars, planVars, serializedTxs, versionedTx, confirmRef,
                 relayLog, landed, final, relayResponse>>

\* getTxDetails, lines 225-240: a fresh getLatestBlockhash, then
\* confirmTransaction, which resolves once the transaction is in the ledger
\* and throws when the block height is exceeded first
ConfirmTransaction ==
  /\ pc = "confirmTransaction"
  /\ \/ /\ ConfirmResolves(i, landed)
        /\ confirmRef' = ConfirmStrategyRef(versionedTx, chainHash)
        /\ pc' = "getTransaction"
        /\ UNCHANGED <<i, outVars, thrown>>
     \/ /\ SendTxReturns(CatchResult(Val("Error", 0, "getLatestBlockhash")))
        /\ UNCHANGED confirmRef
     \/ /\ i \notin landed
        /\ confirmRef' = ConfirmStrategyRef(versionedTx, chainHash)
        /\ SendTxReturns(CatchResult(ExpiredError))
  /\ UNCHANGED <<envVars, planVars, serializedTxs, versionedTx, signature,
                 ledgerVars>>

\* getTxDetails, lines 242-245, and sendTx, lines 149-159: getTransaction
\* yields the transaction, null, or throws
GetTransaction ==
  /\ pc = "getTransaction"
  /\ \/ /\ i \in final
        /\ SendTxReturns(DirectSuccess(signature, Val("details", i, "")))
     \/ SendTxReturns(NullDetailsResult)
     \/ SendTxReturns(CatchResult(Val("Error", 0, "getTransaction")))
  /\ UNCHANGED <<envVars, planVars, sendVars, ledgerVars>>

\* the ledger includes a transaction it accepted; a relay bundle is
\* included as a whole or not at all
Land ==
  /\ accepted \ landed # {}
  /\ \/ /\ relayLog = <<>>
        /\ \E t \in accepted \ landed : landed' = landed \cup {t}
     \/ /\ relayLog # <<>>
        /\ landed' = landed \cup accepted
  /\ UNCHANGED <<envVars, pc, planVars, i, sendVars, ledgerLog, relayLog,
                 accepted, final, relayResponse, outVars, thrown>>

\* an included transaction reaches the finality level
Finalize ==
  /\ landed \ final # {}
  /\ \/ /\ relayLog = <<>>
        /\ \E t \in landed \ final : final' = final \cup {t}
     \/ /\ relayLog # <<>>
        /\ final' = final \cup landed
  /\ UNCHANGED <<envVars, pc, planVars, i, sendVars, ledgerLog, relayLog,
                 accepted, landed, relayResponse, outVars, thrown>>

\* the ledger produces a block: the latest blockhash changes. The call
\* reads it when it builds a transaction and when it starts a confirmation
\* wait; the blocks between two reads are taken before the later read
Tick ==
  /\ chainHash < MaxHash
  /\ pc \in {"bundle_sign", "sendTx", "confirmTransaction"}
  /\ chainHash' = chainHash + 1
  /\ UNCHANGED <<req, hasAccount, curve, calc, pc, planVars, i, sendVars,
                 ledgerVars,
                 outVars, thrown>>

Next ==
  \/ CreateTokenMetadata
  \/ PlanPrimary
  \/ PlanBatch
  \/ BuildBuy
  \/ BuildSell
  \/ SignForBundle
  \/ SendBundle
  \/ SendTxBuild
  \/ SendTxRelay
  \/ SendTransaction
  \/ ConfirmTransaction
  \/ GetTransaction
  \/ Land
  \/ Finalize
  \/ Tick

Spec == Init /\ [][Next]_vars


\* ------------------------------------------- the pure helpers on their own
\* the slippage tolerances tried, and "none given"
Slippages ==
  [present : {TRUE},
   value : {0, 1, 250, 499, 500, 3333, 9999, 10000, 10001, 20000}]
  \cup [present : {FALSE}, value : {0}]

\* the arguments the helpers are applied to: the operation that builds the
\* instruction, the amount (amountSol for a buy, the quoted solOut for a
\* sell) and the tolerance
SlippageInputs ==
  [kind : {"slippage"}, op : {"createAndBuy", "bundledBuy", "buy", "sell"},
   amount : 0..MaxAmount, slippage : Slippages, done : {FALSE},
   failed : {FALSE}, bound : {0}]

\* what sendTx's catch block may be given: a thrown value of one of four
\* classes, its message with or without the custom-program-error marker, a
\* ProgramError's msg, the logs (e.getLogs for a SendTransactionError, which
\* may reject; e.logs for a ProgramError), and what AnchorError.parse does
FailureInputs ==
  [kind : {"classify"},
   class : {"SendTransactionError", "ProgramError", "Error", "string"},
   message : {"Blockhash not found"}, msg : {"", "own msg"},
   custom : BOOLEAN,
   logs : {"undefined", "plain", "exceeded CUs meter", "rejects"},
   parse : {"found", "null", "throws"},
   done : {FALSE}, threw : {FALSE}, success : {TRUE},
   out : {[kind |-> "", message |-> "", logs |-> ""]}]

\* repeated selection: the endpoints and tip accounts returned so far
SelectStart == [kind |-> "select", endpoints |-> {}, tips |-> {}]

\* the call state while only the pure helpers run
mainVars == <<req, hasAccount, curve, pc, allTransactions, allSigners,
              fetched, i,
              serializedTxs, versionedTx, signature, confirmRef, chainHash,
              ledgerLog, relayLog, accepted, landed, final, relayResponse,
              txResults, result0, ret, thrown>>

CalcInit ==
  /\ calc \in SlippageInputs \cup {SelectStart} \cup FailureInputs
  /\ req = [op |-> "none", jito |-> "none", tip |-> NoTip, nBuys |-> 0,
            dup |-> "none", buyAmountSol |-> 0, priorityFees |-> FALSE,
            slippage |-> [present |-> FALSE, value |-> 0]]
  /\ hasAccount = {}
  /\ curve = "absent"
  /\ pc = "calc"
  /\ allTransactions = <<>>
  /\ allSigners = <<>>
  /\ fetched = <<>>
  /\ i = 1
  /\ serializedTxs = <<>>
  /\ versionedTx = Undef
  /\ signature = Undef
  /\ confirmRef = NoRef
  /\ chainHash = 0
  /\ ledgerLog = <<>>
  /\ relayLog = <<>>
  /\ accepted = {}
  /\ landed = {}
  /\ final = {}
  /\ relayResponse = NoResponse
  /\ txResults = <<>>
  /\ result0 = Undef
  /\ ret = NoResult
  /\ thrown = Undef

\* the maximum spend of a buy instruction: createAndBuy lines 155-158 and
\* 199-202, getBuyInstructionsBySolAmount lines 408-411
SlippageBuy ==
  /\ calc.kind = "slippage"
  /\ calc.op # "sell"
  /\ ~calc.done
  /\ calc' = [calc EXCEPT
                !.done = TRUE,
                !.bound = calculateWithSlippageBuy(
                            calc.amount, SlippageOrDefault(calc.slippage))]
  /\ UNCHANGED mainVars

\* the minimum receive of the sell instruction:
\* getSellInstructionsByTokenAmount lines 495-498
SlippageSell ==
  /\ calc.kind = "slippage"
  /\ calc.op = "sell"
  /\ ~calc.done
  /\ calc' = [calc EXCEPT
                !.done = TRUE,
                !.bound = calculateWithSlippageSell(
                            calc.amount, SlippageOrDefault(calc.slippage))]
  /\ UNCHANGED mainVars

\* one call of getRandomJitoMainnetEndpoint
SelectEndpoint ==
  /\ calc.kind = "select"
  /\ \E n \in 0..(RandomSteps - 1) :
       calc' = [calc EXCEPT
                  !.endpoints = @ \cup {getRandomJitoMainnetEndpoint(n)}]
  /\ UNCHANGED mainVars

\* one call of getRandomTipAccount
SelectTipAccount ==
  /\ calc.kind = "select"
  /\ \E n \in 0..(RandomSteps - 1) :
       calc' = [calc EXCEPT !.tips = @ \cup {getRandomTipAccount(n)}]
  /\ UNCHANGED mainVars

\* sendTx's catch block, lines 161-199: the logs of a SendTransactionError
\* are awaited first, and a rejection of that leaves sendTx; otherwise the
\* failure is classified and returned with success = false
ClassifyFailure ==
  /\ calc.kind = "classify"
  /\ ~calc.done
  /\ IF calc.class = "SendTransactionError" /\ calc.logs = "rejects"
       THEN calc' = [calc EXCEPT !.done = TRUE, !.threw = TRUE]
       ELSE calc' = [calc EXCEPT
                       !.done = TRUE,
                       !.success = FALSE,
                       !.out = Classified(calc.class, calc.message, calc.msg,
                                          calc.custom, calc.logs, calc.parse)]
  /\ UNCHANGED mainVars

CalcNext ==
  \/ ClassifyFailure
  \/ SlippageBuy
  \/ SlippageSell
  \/ SelectEndpoint
  \/ SelectTipAccount

CalcSpec == CalcInit /\ [][CalcNext]_vars

\* ------------------------------------------------------------------ claims
\* the call is createAndBuy on the sequential (relay-disabled) path
Sequential == req.op = "createAndBuy" /\ ~JitoEnabled(req)

\* the call is createAndBuy on the atomic (relay-enabled) path
Atomic == req.op = "createAndBuy" /\ JitoEnabled(req)

\* the positions of ledgerLog that hold transaction k
SubmissionsOf(k) == {m \in 1..Len(ledgerLog) : ledgerLog[m].idx = k}

\* sendTx has returned a failed result for transaction k
Failed(k) == k <= Len(txResults) /\ ~txResults[k].success

\* the plan is complete: the call has left the planning steps
Planned ==
  /\ pc \notin {"start", "plan_primary", "plan_batch"}
  /\ ~(pc = "thrown"
       /\ thrown.message \in {"createTokenMetadata", "getGlobalAccount"})

\* C1: on the sequential path of createAndBuy, once sendTx has returned
\* success = false for transaction k, no transaction after k is ever handed
\* to the ledger and transaction k is handed to it at most once.
C1_FailureHaltsBatch ==
  Sequential =>
    \A k \in 1..Len(txResults) :
      Failed(k) =>
        /\ \A m \in 1..Len(ledgerLog) : ledgerLog[m].idx <= k
        /\ Cardinality(SubmissionsOf(k)) <= 1

\* C1 witness: the second of at least three transactions was submitted and
\* failed, and the call has returned
C1_Witness ==
  /\ Sequential
  /\ pc = "done"
  /\ Len(allTransactions) >= 3
  /\ Failed(2)
  /\ SubmissionsOf(2) # {}

\* C2 as stated: with a plan of three transactions of which the second
\* fails, the caller gets the first transaction's successful result.
C2_Original ==
  (Sequential /\ pc = "done" /\ Len(allTransactions) = 3 /\ Failed(2)) =>
    (ret = txResults[1] /\ ret.success)

\* C2 amended: with a plan of three transactions of which the second fails,
\* the third is never submitted and the caller gets the second transaction's
\* failed result (success = false with its error), not the first's.
C2_SecondFailureReturned ==
  (Sequential /\ pc = "done" /\ Len(allTransactions) = 3 /\ Failed(2)) =>
    /\ ret = txResults[2]
    /\ ~ret.success
    /\ ret # txResults[1]
    /\ SubmissionsOf(3) = {}

\* C2 witness: three transactions, the first confirmed, the second failed
C2_Witness ==
  /\ Sequential
  /\ pc = "done"
  /\ Len(allTransactions) = 3
  /\ txResults[1].success
  /\ 1 \in final
  /\ Failed(2)

CeilDiv(n, k) == (n + k - 1) \div k

\* the number of buy instructions of a transaction
BuysIn(tx) == Cardinality({m \in 1..Len(tx) : tx[m].kind = "buy"})

\* C4: a createAndBuy plan with N bundled buyers is 1 primary transaction
\* followed by ceil(N / 4) secondary ones, and the last secondary one holds
\* N - 4 * (ceil(N / 4) - 1) participants; for N = 9: 1 + 3, the last with 1.
C4_PlanShape ==
  (req.op = "createAndBuy" /\ Planned) =>
    LET n == req.nBuys
        k == MAX_BUNDLED_BUYS_PER_TX
        last == Len(allTransactions)
    IN /\ last = 1 + CeilDiv(n, k)
       /\ Len(allSigners) = last
       /\ n > 0 =>
            /\ Len(allSigners[last]) = n - k * (CeilDiv(n, k) - 1)
            /\ BuysIn(allTransactions[last]) = n - k * (CeilDiv(n, k) - 1)
       /\ n = 9 =>
            /\ last = 4
            /\ BuysIn(allTransactions[4]) = 1

\* C4 witness: nine bundled buyers, planned into four transactions
C4_Witness ==
  /\ req.op = "createAndBuy"
  /\ Planned
  /\ req.nBuys = 9
  /\ Len(allTransactions) = 4
  /\ Len(allSigners[4]) = 1


\* the tip instructions of a transaction
TipsIn(tx) == {m \in 1..Len(tx) : tx[m].kind = "tip"}

C6_PoliciesExclusive ==
  req.op = "createAndBuy" =>
    /\ JitoEnabled(req) => ledgerLog = <<>>
    /\ ~JitoEnabled(req) =>
         /\ relayLog = <<>>
         /\ serializedTxs = <<>>
         /\ \A k \in 1..Len(allTransactions) : TipsIn(allTransactions[k]) = {}
         /\ \A m \in 1..Len(ledgerLog) : TipsIn(ledgerLog[m].instructions) = {}
         /\ versionedTx # Undef => TipsIn(versionedTx.instructions) = {}

\* C6 witness: a relay-disabled call submitted two transactions directly
C6_Witness ==
  /\ req.op = "createAndBuy"
  /\ req.jito = "off"
  /\ pc = "done"
  /\ Len(ledgerLog) >= 2
  /\ ret.success

\* the relay answered with a non-empty error field
RelayError == relayResponse # NoResponse /\ Truthy(relayResponse.error)

\* C7: once the relay has answered with a non-empty error field, the
\* operation (createAndBuy, buy or sell) has returned success = false with
\* an error carrying the relay's error, the bundle was posted once, and no
\* transaction went to the ledger or was taken by the relay.
C7_RelayErrorIsTotalFailure ==
  RelayError =>
    /\ pc = "done"
    /\ ~ret.success
    /\ ret.error.message = relayResponse.error
    /\ Len(relayLog) = 1
    /\ ledgerLog = <<>>
    /\ accepted = {}

\* C7 witness: a createAndBuy bundle of several transactions was refused
C7_Witness ==
  /\ Atomic
  /\ Len(allTransactions) >= 2
  /\ RelayError
  /\ relayResponse.error = "rate limited"
  /\ pc = "done"

\* the failures that leave the operation as a rejected promise
Escaping ==
  {"createTokenMetadata", "getGlobalAccount", "Bonding curve account not found",
   "Curve is complete", "getAccountInfo", "getLatestBlockhash", "getLogs", "fetch failed",
   "response.json"}

C9_Original ==
  (pc = "done" /\ ret.success) => (1 \in landed /\ 1 \in final)

\* C9 amended: on the direct path success = true is returned only once the
\* primary transaction has been confirmed at the commitment level and fetched
\* at the finality level; on the relay path success = true says only that
\* the relay answered without a non-empty error field.
C9_DirectSuccessAfterConfirmation ==
  (pc = "done" /\ ret.success) =>
    IF relayResponse = NoResponse
      THEN /\ 1 \in landed
           /\ 1 \in final
           /\ ret.signature = Val("signature", 1, "")
           /\ ret.results = Val("details", 1, "")
      ELSE /\ ~RelayError
           /\ ret.results = Undef

\* C9 witness: a direct createAndBuy of three transactions succeeded
C9_Witness ==
  /\ Sequential
  /\ pc = "done"
  /\ ret.success
  /\ Len(allTransactions) = 3
  /\ 1 \in final

\* the transactions the ledger accepted whose sendTx has not returned
InFlight == {t \in accepted : t > Len(txResults)}

\* C10: on the sequential path the transactions reach the ledger in plan
\* order, each after the sendTx of the one before it has returned success
\* with its confirmation awaited and its details fetched; at most one is in
\* flight.
C10_OneAtATime ==
  Sequential =>
    /\ \A m \in 1..Len(ledgerLog) : ledgerLog[m].idx = m
    /\ \A m \in 2..Len(ledgerLog) :
         /\ m - 1 <= Len(txResults)
         /\ txResults[m - 1].success
         /\ txResults[m - 1].results = Val("details", m - 1, "")
         /\ (m - 1) \in landed
         /\ (m - 1) \in final
    /\ Cardinality(InFlight) <= 1

\* C10 witness: the third transaction is in flight, the first two are final
C10_Witness ==
  /\ Sequential
  /\ Len(ledgerLog) = 3
  /\ InFlight = {3}
  /\ {1, 2} \subseteq final


\* C11: on the sequential path, when every transaction of the plan
\* succeeded, the outcome returned is the first transaction's result, with
\* its signature and its details, whatever the number of secondary
\* transactions.
C11_FirstResultReturned ==
  (Sequential /\ pc = "done" /\ Len(txResults) = Len(allTransactions)
     /\ \A k \in 1..Len(txResults) : txResults[k].success) =>
    /\ ret = txResults[1]
    /\ ret.success
    /\ ret.signature = Val("signature", 1, "")
    /\ ret.results = Val("details", 1, "")

\* C11 witness: a plan of a primary and three secondary transactions went
\* through
C11_Witness ==
  /\ Sequential
  /\ pc = "done"
  /\ Len(allTransactions) = 4
  /\ Len(txResults) = 4
  /\ \A k \in 1..4 : txResults[k].success


\* q is floor(x / 10000): the integer with 10000 * q <= x < 10000 * (q + 1)
IsFloorOfTenThousandth(q, x) == 10000 * q <= x /\ x < 10000 * (q + 1)

\* a helper has been applied to a tolerance the caller gave
Applied == calc.kind = "slippage" /\ calc.done

\* C12: for non-negative a and b, calculateWithSlippageBuy(a, b) is
\* a + floor(a * b / 10000) and calculateWithSlippageSell(a, b) is
\* a - floor(a * b / 10000); with b = 0 both are a.
C12_SlippageFormula ==
  (Applied /\ calc.slippage.present) =>
    LET a == calc.amount
        b == calc.slippage.value
    IN /\ calc.op # "sell" => IsFloorOfTenThousandth(calc.bound - a, a * b)
       /\ calc.op = "sell" => IsFloorOfTenThousandth(a - calc.bound, a * b)
       /\ b = 0 => calc.bound = a

\* C12 witness: a sell bound where the floor cuts a fraction off
C12_Witness ==
  /\ Applied
  /\ calc.op = "sell"
  /\ calc.amount = 25
  /\ calc.slippage.present
  /\ calc.slippage.value = 3333
  /\ calc.bound = 17


\* the tolerance a helper was applied with
Tolerance == SlippageOrDefault(calc.slippage)

\* C13 as stated: for every amount > 0 and every tolerance the buy bound is
\* strictly greater, and the sell bound strictly less, than the amount.
C13_Original ==
  (Applied /\ calc.amount > 0) =>
    /\ calc.op # "sell" => calc.bound > calc.amount
    /\ calc.op = "sell" => calc.bound < calc.amount

\* C13 amended: the buy bound is never less, and the sell bound never more,
\* than the amount; the bound differs from the amount exactly when
\* amount * tolerance >= 10000, and equals it otherwise.
C13_BoundNeverBetter ==
  Applied =>
    /\ calc.op # "sell" => calc.bound >= calc.amount
    /\ calc.op = "sell" => calc.bound <= calc.amount
    /\ (calc.bound # calc.amount) <=> (calc.amount * Tolerance >= 10000)

\* C13 witness: a positive amount under a positive tolerance whose bound is
\* the amount itself
C13_Witness ==
  /\ Applied
  /\ calc.amount = 19
  /\ Tolerance = 500
  /\ calc.bound = 19

\* C14 as stated: a sell bound whose subtraction would underflow fails, and
\* the minimum receive passed into the sell instruction is never negative.
C14_Original ==
  (Applied /\ calc.op = "sell") =>
    /\ (calc.amount * Tolerance) \div 10000 > calc.amount => calc.failed
    /\ ~calc.failed => calc.bound >= 0

\* C15: with no tolerance supplied, a buy instruction's maximum spend is
\* amountSol + floor(amountSol * 500 / 10000) and the sell instruction's
\* minimum receive is solOut - floor(solOut * 500 / 10000).
C15_DefaultTolerance ==
  (Applied /\ ~calc.slippage.present) =>
    /\ calc.op # "sell" =>
         IsFloorOfTenThousandth(calc.bound - calc.amount, calc.amount * 500)
    /\ calc.op = "sell" =>
         IsFloorOfTenThousandth(calc.amount - calc.bound, calc.amount * 500)

\* C15 witness: a buy of 40 with no tolerance supplied is bounded at 42
C15_Witness ==
  /\ Applied
  /\ ~calc.slippage.present
  /\ calc.op = "buy"
  /\ calc.amount = 40
  /\ calc.bound = 42


\* C16: a buy or sell against a market whose record is complete never builds,
\* signs or submits a transaction and returns no outcome; it ends by throwing,
\* with the quote's failure once the records the quote needs were fetched.
C16_CompletedCurveRejected ==
  (req.op \in {"buy", "sell"} /\ curve = "complete") =>
    /\ pc \in {"start", "thrown"}
    /\ allTransactions = <<>>
    /\ versionedTx = Undef
    /\ signature = Undef
    /\ ledgerLog = <<>>
    /\ relayLog = <<>>
    /\ ret = NoResult
    /\ thrown # Undef =>
         thrown.message \in
           {"Curve is complete", "getAccountInfo", "getGlobalAccount"}
    /\ (thrown # Undef /\ thrown.message = "getGlobalAccount") =>
         req.op = "sell"

\* C16 witness: a sell against a completed market has ended with the quote's
\* failure
C16_Witness ==
  /\ req.op = "sell"
  /\ curve = "complete"
  /\ pc = "thrown"
  /\ thrown = Val("Error", 0, "Curve is complete")
  /\ ledgerLog = <<>>


\* the failed result sendTx returns when confirmTransaction reports expiry
ExpiredResult == CatchResult(ExpiredError)

\* C17 as stated: the block reference whose validity window bounds the
\* confirmation wait is the one the transaction was signed against, and a
\* submission that ends by expiry carries a failure distinct from the
\* catch-all one.
C17_Original ==
  /\ (confirmRef # NoRef /\ versionedTx # Undef) =>
       confirmRef = versionedTx.recentBlockhash
  /\ \A k \in DOMAIN txResults :
       txResults[k] = ExpiredResult =>
         txResults[k].error.type # "TransactionError: Unknown Error"


Members(list) == {list[k] : k \in DOMAIN list}

\* C18: every endpoint and tip account selected is a member of its list of 6
\* endpoints or 8 tip accounts (the index is in range).  That every member
\* can be selected is C18_Witness.
C18_SelectionInRange ==
  calc.kind = "select" =>
    /\ Cardinality(Members(JITO_MAINNET_ENDPOINTS)) = 6
    /\ Cardinality(Members(TIP_ACCOUNTS)) = 8
    /\ calc.endpoints \subseteq Members(JITO_MAINNET_ENDPOINTS)
    /\ calc.tips \subseteq Members(TIP_ACCOUNTS)
    /\ \A n \in 0..(RandomSteps - 1) :
         /\ RandomIndex(n, Len(JITO_MAINNET_ENDPOINTS)) \in 0..5
         /\ RandomIndex(n, Len(TIP_ACCOUNTS)) \in 0..7

\* C18 witness: repeated selection has returned every endpoint and every tip
\* account
C18_Witness ==
  /\ calc.kind = "select"
  /\ calc.endpoints = Members(JITO_MAINNET_ENDPOINTS)
  /\ calc.tips = Members(TIP_ACCOUNTS)

\* the transactions built and signed so far in this call
Built ==
  Members(serializedTxs) \cup Members(ledgerLog)
    \cup (IF versionedTx = Undef THEN {} ELSE {versionedTx})

\* C19 as stated: every transaction built in one createAndBuy call carries
\* the same recent blockhash.
C19_Original ==
  req.op = "createAndBuy" =>
    \A t, u \in Built : t.recentBlockhash = u.recentBlockhash

\* in plan order, no transaction carries an older blockhash than the one
\* before it, and none a newer one than the ledger's latest
BlockhashesInBuildOrder ==
  \A t, u \in Built :
    /\ t.idx <= u.idx => t.recentBlockhash <= u.recentBlockhash
    /\ t.recentBlockhash <= chainHash

\* a transaction built in this step carries the ledger's latest blockhash
BuiltAgainstLatest ==
  /\ serializedTxs' # serializedTxs =>
       serializedTxs'[Len(serializedTxs')].recentBlockhash = chainHash
  /\ (versionedTx' # versionedTx /\ versionedTx' # Undef) =>
       versionedTx'.recentBlockhash = chainHash

\* C19 amended: each transaction of a createAndBuy plan carries the blockhash
\* that was the ledger's latest when that transaction was built; two
\* transactions of one call carry the same blockhash only if it did not
\* change between their builds.
C19_FreshReferencePerTransaction ==
  /\ [](req.op = "createAndBuy" => BlockhashesInBuildOrder)
  /\ [][req.op = "createAndBuy" => BuiltAgainstLatest]_vars

\* C19 witness: a bundle whose first two transactions carry different
\* blockhashes
C19_Witness ==
  /\ req.op = "createAndBuy"
  /\ Len(serializedTxs) >= 2
  /\ serializedTxs[1].recentBlockhash # serializedTxs[2].recentBlockhash

\* the accounts the instructions of transaction t require as signers
RequiredBy(t) ==
  UNION {RequiredSigners(t.instructions[k]) : k \in DOMAIN t.instructions}

\* the fee payer createAndBuy names for transaction idx
PlanPayer(idx) ==
  IF idx = 1 THEN Creator
  ELSE BundledBuys(req)[MAX_BUNDLED_BUYS_PER_TX * (idx - 2) + 1].signer

\* the participants of the batch of transaction idx > 1: the bundled buys
\* taken MAX_BUNDLED_BUYS_PER_TX at a time, in order
PlanParticipants(idx) ==
  {BundledBuys(req)[k].signer :
     k \in {j \in 1..req.nBuys :
              /\ j > MAX_BUNDLED_BUYS_PER_TX * (idx - 2)
              /\ j <= MAX_BUNDLED_BUYS_PER_TX * (idx - 1)}}

\* C20: every transaction of a createAndBuy plan is signed by exactly the
\* accounts its instructions require as signers, and its fee payer is its
\* first signer: the creator for the primary, the batch's first participant
\* for a secondary.
C20_ExactSigners ==
  req.op = "createAndBuy" =>
    \A t \in Built :
      /\ Members(t.signers) = RequiredBy(t)
      /\ t.payerKey = t.signers[1]
      /\ t.payerKey = PlanPayer(t.idx)
      /\ t.idx = 1 => Members(t.signers) = {Creator, Mint}
      /\ t.idx > 1 => Members(t.signers) = PlanParticipants(t.idx)

\* C20 witness: a secondary transaction of four buyers with a tip, signed
\* for the bundle
C20_Witness ==
  /\ req.op = "createAndBuy"
  /\ \E k \in DOMAIN serializedTxs :
       /\ serializedTxs[k].idx = 3
       /\ Len(serializedTxs[k].signers) = 4
       /\ serializedTxs[k].payerKey = Buyer(5)
       /\ serializedTxs[k].instructions[1].kind = "tip"
       /\ serializedTxs[k].instructions[1].user = Buyer(5)


\* the tip instructions of a sequence of instructions
TipsOf(tx) == {tx[m] : m \in TipsIn(tx)}

\* exactly one tip, funded by payer, to a member of the tip-account list
OneTip(tx, payer) ==
  /\ Cardinality(TipsIn(tx)) = 1
  /\ \A tip \in TipsOf(tx) :
       /\ tip.user = payer
       /\ tip.to \in Members(TIP_ACCOUNTS)

\* C21: with relay routing enabled, every transaction of a createAndBuy
\* plan, as planned and as signed for and handed to the relay, holds exactly
\* one tip: the primary's funded by the creator, a secondary's by its
\* batch's first participant, each to a member of the tip-account list.
C21_OneTipPerTransaction ==
  Atomic =>
    /\ \A k \in DOMAIN allTransactions :
         OneTip(allTransactions[k], PlanPayer(k))
    /\ \A t \in Built : OneTip(t.instructions, PlanPayer(t.idx))
    /\ \A b \in DOMAIN relayLog : \A k \in DOMAIN relayLog[b] :
         OneTip(relayLog[b][k].instructions, PlanPayer(k))

\* C21 witness: a bundle of three transactions handed to the relay, the
\* second tipped by the first bundled buyer and the third by the fifth, to
\* different tip accounts
C21_Witness ==
  /\ Atomic
  /\ Len(relayLog) = 1
  /\ Len(relayLog[1]) = 3
  /\ relayLog[1][2].instructions[1].kind = "tip"
  /\ relayLog[1][2].instructions[1].user = Buyer(1)
  /\ relayLog[1][3].instructions[1].user = Buyer(5)
  /\ relayLog[1][2].instructions[1].to # relayLog[1][3].instructions[1].to


\* the positions <<k, m>> of the buy instructions of the plan
PlanBuys ==
  UNION {{<<k, m>> : m \in {n \in DOMAIN allTransactions[k] :
                              allTransactions[k][n].kind = "buy"}} :
           k \in DOMAIN allTransactions}

\* position p comes before position q in the plan's execution order
Before(p, q) == p[1] < q[1] \/ (p[1] = q[1] /\ p[2] < q[2])

\* C22 as stated: in a createAndBuy plan, a buy that comes after another buy
\* of the plan is not priced by the initial-reserve quote.
C22_Original ==
  req.op = "createAndBuy" =>
    \A q \in PlanBuys :
      (\E p \in PlanBuys : Before(p, q)) =>
        allTransactions[q[1]][q[2]].amount.fn # "getInitialBuyPrice"


\* C23 as stated: the instructions built for a buyer hold a
\* create-holding-account instruction exactly when the buyer owns no holding
\* account, immediately before the buy; the buy carries the quoted token
\* amount and the slippage-bounded maximum spend.
C23_Original ==
  \A k \in DOMAIN allTransactions :
    LET tx == allTransactions[k] IN
    \A m \in DOMAIN tx :
      /\ tx[m].kind = "buy" =>
           /\ (m > 1 /\ tx[m - 1].kind = "createATA"
                 /\ tx[m - 1].user = tx[m].user)
                <=> tx[m].user \notin hasAccount
           /\ tx[m].amount.fn \in {"getInitialBuyPrice", "getBuyPrice"}
           /\ tx[m].maxSolCost =
                calculateWithSlippageBuy(tx[m].amount.solIn,
                                         SlippageOrDefault(req.slippage))
      /\ tx[m].kind = "createATA" =>
           /\ m < Len(tx)
           /\ tx[m + 1].kind = "buy"
           /\ tx[m + 1].user = tx[m].user

\* the indices of the transactions signed so far
SignedIdx == {t.idx : t \in Built}

\* the plan holds the primary and one transaction for every batch
PlanComplete ==
  Len(allTransactions) = 1 + Len(Batches(BundledBuys(req)))

\* C24 as stated: every transaction of the plan is built before any is
\* signed, and every one is signed before any is submitted.
C24_Original ==
  req.op = "createAndBuy" =>
    /\ Built # {} => PlanComplete
    /\ (ledgerLog # <<>> \/ relayLog # <<>>) =>
         SignedIdx = DOMAIN allTransactions

\* the stage of a position: planning, signing and submitting, terminal
Stage(p) ==
  IF p \in {"start", "plan_primary", "plan_batch"} THEN 1
  ELSE IF p \in {"done", "thrown"} THEN 3
  ELSE 2

\* what holds of the stages in every state
StagesInOrder ==
  /\ Built # {} => PlanComplete
  /\ Stage(pc) = 1 => Built = {} /\ ledgerLog = <<>> /\ relayLog = <<>>
  /\ Atomic =>
       /\ ledgerLog = <<>>
       /\ relayLog # <<>> => SignedIdx = DOMAIN allTransactions
  /\ Sequential =>
       /\ relayLog = <<>>
       /\ \A t \in Built :
            /\ t.idx <= Len(txResults) + 1
            /\ \A k \in 1..(t.idx - 1) : txResults[k].success
       /\ \A m \in DOMAIN ledgerLog : ledgerLog[m].idx \in SignedIdx

\* C24 amended: a createAndBuy call plans every transaction before it signs
\* any and never returns to an earlier stage; on the relay path every
\* transaction is signed before the one submission; on the sequential path
\* transaction k + 1 is signed only after transaction k was submitted and
\* sendTx returned success for it.
C24_PlanThenSignAndSubmit ==
  /\ [](req.op = "createAndBuy" => StagesInOrder)
  /\ [][req.op = "createAndBuy" => Stage(pc') >= Stage(pc)]_vars

\* C24 witness: on the sequential path the primary is confirmed and the
\* second transaction handed to the ledger while the third is not signed
C24_Witness ==
  /\ Sequential
  /\ Len(allTransactions) = 3
  /\ Len(ledgerLog) = 2
  /\ SignedIdx = {1, 2}


IsBuy(ix) == ix.kind = "buy"

\* the buy instructions of the secondary transactions from k on, in order
RECURSIVE SecondaryBuysFrom(_)
SecondaryBuysFrom(k) ==
  IF k > Len(allTransactions) THEN <<>>
  ELSE SelectSeq(allTransactions[k], IsBuy) \o SecondaryBuysFrom(k + 1)

\* C25: the secondary transactions of a complete createAndBuy plan hold the
\* bundled buys, each exactly once and in the caller's order, none of them
\* in the primary; every secondary transaction holds 1 to 4 buys and every
\* one but the last holds 4.
C25_BatchesPartitionBuys ==
  (req.op = "createAndBuy" /\ Planned) =>
    LET buys == BundledBuys(req)
        all == SecondaryBuysFrom(2)
        last == Len(allTransactions)
    IN /\ Len(all) = Len(buys)
       /\ \A j \in DOMAIN buys :
            /\ all[j].user = buys[j].signer
            /\ all[j].amount.solIn = buys[j].amountInSol
       /\ \A m \in DOMAIN allTransactions[1] :
            IsBuy(allTransactions[1][m]) => allTransactions[1][m].user = Creator
       /\ \A k \in 2..last :
            /\ BuysIn(allTransactions[k]) \in 1..4
            /\ k < last => BuysIn(allTransactions[k]) = 4

\* C25 witness: nine bundled buys planned as 4, 4 and 1 beside a creator buy
C25_Witness ==
  /\ req.op = "createAndBuy"
  /\ Planned
  /\ req.buyAmountSol > 0
  /\ Len(allTransactions) = 4
  /\ BuysIn(allTransactions[1]) = 1
  /\ BuysIn(allTransactions[2]) = 4
  /\ BuysIn(allTransactions[3]) = 4
  /\ BuysIn(allTransactions[4]) = 1
  /\ SecondaryBuysFrom(2)[9].user = Buyer(9)

\* C26 as stated: with priority fees supplied to createAndBuy, every
\* transaction handed to the ledger or to the relay begins with the
\* compute-unit-limit and the compute-unit-price instruction.
C26_Original ==
  (req.op = "createAndBuy" /\ req.priorityFees) =>
    \A t \in Members(ledgerLog) \cup UNION {Members(relayLog[b]) :
                                             b \in DOMAIN relayLog} :
      /\ Len(t.instructions) >= 2
      /\ t.instructions[1].kind = "setComputeUnitLimit"
      /\ t.instructions[2].kind = "setComputeUnitPrice"


\* C27: a buy or sell against a market with no bonding-curve record ends by
\* throwing, the not-found error unless the read itself failed; only the
\* market record was read (the lookup gave null), the global configuration
\* was not, and nothing was built, signed or submitted.
C27_AbsentCurveRejected ==
  (req.op \in {"buy", "sell"} /\ curve = "absent") =>
    /\ getBondingCurveAccount(curve) = "null"
    /\ pc \in {"start", "thrown"}
    /\ allTransactions = <<>>
    /\ Built = {}
    /\ ledgerLog = <<>>
    /\ relayLog = <<>>
    /\ ret = NoResult
    /\ "global" \notin Members(fetched)
    /\ pc = "thrown" =>
         /\ fetched = <<"bondingCurve">>
         /\ thrown.message \in
              {"Bonding curve account not found", "getAccountInfo"}

\* C27 witness: a buy against an absent market has thrown not-found
C27_Witness ==
  /\ req.op = "buy"
  /\ curve = "absent"
  /\ pc = "thrown"
  /\ thrown = Val("Error", 0, "Bonding curve account not found")
  /\ fetched = <<"bondingCurve">>


\* the catch block has run on a failure
Caught == calc.kind = "classify" /\ calc.done

\* C28 as stated: the classifier returns a result with success = false for
\* every failure, by this precedence: compute budget exceeded for a
\* submission error whose logs hold the marker, whatever its message; else a
\* program or anchor error for a custom-program-error message; else a
\* transaction error; a program error with its own message and logs; else
\* the generic kind, with the original message.
C28_Original ==
  Caught =>
    /\ ~calc.threw
    /\ ~calc.success
    /\ IF calc.class = "SendTransactionError"
         THEN IF calc.logs = "exceeded CUs meter"
                THEN calc.out.kind = "Compute budget exceeded"
              ELSE IF calc.custom
                THEN calc.out.kind \in {"Program Error", "Anchor Error"}
              ELSE /\ calc.out.kind = "Transaction Error"
                   /\ calc.out.message = calc.message
       ELSE IF calc.class = "ProgramError"
         THEN /\ calc.out.kind = "Program Error"
              /\ calc.out.message \in {calc.msg, calc.message}
              /\ calc.out.logs = calc.logs
       ELSE /\ calc.out.kind = "Unknown Error"
            /\ calc.out.message = calc.message


\* the kinds of the instructions of a transaction, in order
KindsOf(tx) == [m \in DOMAIN tx |-> tx[m].kind]

\* how often an account read was asked for
Reads(what) == Cardinality({m \in DOMAIN fetched : fetched[m] = what})

\* the global-configuration read of a batch has just failed
BatchReadFailed == pc = "thrown" /\ thrown.message = "getGlobalAccount"

\* C29: createAndBuy with buyAmountSol = 0 plans a primary of the creation
\* instruction alone, after the tip when relay routing is enabled; no read
\* is made for a creator's buy (the global configuration is read once per
\* batch only, a holding account once per bundled buy); the bundled buys are
\* planned all the same and handed on with the primary.
C29_NoCreatorBuy ==
  (req.op = "createAndBuy" /\ req.buyAmountSol = 0) =>
    /\ Len(allTransactions) >= 1 =>
         KindsOf(allTransactions[1]) =
           (IF JitoEnabled(req) THEN <<"tip", "create">> ELSE <<"create">>)
    /\ Len(allTransactions) >= 1 =>
         Reads("global") =
           Len(allTransactions) - 1 + (IF BatchReadFailed THEN 1 ELSE 0)
    /\ Len(allTransactions) = 0 => fetched = <<>>
    /\ Reads("holding") = Len(SecondaryBuysFrom(2))
    /\ Planned =>
         /\ Len(allTransactions) = 1 + CeilDiv(req.nBuys, 4)
         /\ Len(SecondaryBuysFrom(2)) = req.nBuys
    /\ \A b \in DOMAIN relayLog : Len(relayLog[b]) = Len(allTransactions)
    /\ (Sequential /\ pc = "done" /\ ret.success) =>
         {ledgerLog[m].idx : m \in DOMAIN ledgerLog} = DOMAIN allTransactions

\* C29 witness: no creator buy, five bundled buys, every transaction handed
\* to the ledger and the call returned success
C29_Witness ==
  /\ Sequential
  /\ req.buyAmountSol = 0
  /\ req.nBuys = 5
  /\ pc = "done"
  /\ ret.success
  /\ Len(ledgerLog) = 3
  /\ KindsOf(allTransactions[1]) = <<"create">>
  /\ fetched = <<"global", "holding", "holding", "holding", "holding",
                 "global", "holding">>

\* C30 as stated: every outcome returned has a signature or bundle id when
\* success = true and an error when success = false.
C30_Original ==
  pc = "done" =>
    /\ ret.success => ret.signature # Undef
    /\ ~ret.success => ret.error # Undef


\* the tip instructions the call has emitted: in its plan and in the
\* transactions it has built and signed
EmittedTips ==
  UNION {TipsOf(allTransactions[k]) : k \in DOMAIN allTransactions}
    \cup UNION {TipsOf(t.instructions) : t \in Built}

\* the tip the caller asked for: the stated amount, or 100000 when none
\* was stated
RequestedTip == IF req.tip.present THEN req.tip.value ELSE 100000

\* C31 as stated: with relay routing enabled, every tip instruction of
\* createAndBuy, buy and sell transfers exactly the tip amount the caller
\* specified, zero included, and the default 100000 only when the caller
\* specified none.
C31_Original ==
  \A tip \in EmittedTips : tip.lamports = RequestedTip


\* the positions <<k, m>> of the create-holding-account instructions of the
\* plan
PlanCreates ==
  UNION {{<<k, m>> : m \in {n \in DOMAIN allTransactions[k] :
                              allTransactions[k][n].kind = "createATA"}} :
           k \in DOMAIN allTransactions}

\* C32 as stated: no createAndBuy plan holds two instructions creating the
\* holding account of the same participant, also when a participant is
\* listed more than once in the request.
C32_Original ==
  req.op = "createAndBuy" =>
    \A p, q \in PlanCreates :
      allTransactions[p[1]][p[2]].user = allTransactions[q[1]][q[2]].user
        => p = q

====
